---- MODULE Spec2Model ----
(***************************************************************************)
(* Docker Port Viewer: the state of the App component (src/src/App.tsx)    *)
(* and its handlers and effects.                                           *)
(*                                                                         *)
(* Conventions.  A JavaScript string is a sequence of one-character        *)
(* strings (<<"a","b">> is "ab"), so that trimming, case folding,          *)
(* substring search, parseInt and number formatting are computed.  A       *)
(* nullable value is a sequence of length at most one: <<>> is             *)
(* null/undefined and <<v>> is the value v.  Sort options and the error    *)
(* message are only compared for equality and are plain strings.           *)
(***************************************************************************)
EXTENDS Integers, Sequences, FiniteSets, TLC

VARIABLES
    mounted,             \* the component has rendered and its mount effects ran
    storage,             \* localStorage: the four preference slots
    containers,          \* useState<DockerContainer[]>([])            line 54
    filteredContainers,  \* useState<DockerContainer[]>([])            line 55
    hostname,            \* line 56
    searchTerm,          \* line 59
    sortOption,          \* line 60
    loading,             \* line 63
    error,               \* line 64
    currentUrl,          \* line 65
    iframeKey,           \* line 66
    iframeHistory,       \* line 67
    historyIndex,        \* line 68
    selectedUrl,         \* line 70 (anchorEl is set and cleared together with it)
    nextAvailablePort,   \* line 71
    minPort,             \* line 72
    maxPort,             \* line 75
    inflight,            \* axios.get requests issued and not yet settled
    issued,              \* axios.get requests issued so far
    settled,             \* how the last settled request ended
    atIssue,             \* the container list when the last request was issued
    navLog,              \* the navigation calls that changed the state, in order
    menuChoice           \* the context-menu item the last step chose, if it chose one

vars == <<mounted, storage, containers, filteredContainers, hostname, searchTerm,
          sortOption, loading, error, currentUrl, iframeKey, iframeHistory,
          historyIndex, selectedUrl, nextAvailablePort, minPort, maxPort,
          inflight, issued, settled, atIssue, navLog, menuChoice>>

(***************************************************************************)
(* Bounds of the model.                                                    *)
(***************************************************************************)
\* iframeKey grows with every navigation, back, forward and refresh; the
\* handlers that advance it are explored while it is below MaxKey.
MaxKey == 4

(***************************************************************************)
(* Nullable values.                                                        *)
(***************************************************************************)
None == <<>>
Some(v) == <<v>>
IsNull(o) == Len(o) = 0
Val(o) == o[1]

(***************************************************************************)
(* Strings.                                                                *)
(***************************************************************************)
Digits == <<"0", "1", "2", "3", "4", "5", "6", "7", "8", "9">>

IsDigit(ch) == \E i \in 1..10 : Digits[i] = ch

DigitValue(ch) == (CHOOSE i \in 1..10 : Digits[i] = ch) - 1

IsSpace(ch) == ch = " "

\* String.prototype.trim
RECURSIVE TrimStart(_)
TrimStart(s) ==
    IF s # <<>> /\ IsSpace(Head(s)) THEN TrimStart(Tail(s)) ELSE s

RECURSIVE TrimEnd(_)
TrimEnd(s) ==
    IF s # <<>> /\ IsSpace(s[Len(s)]) THEN TrimEnd(SubSeq(s, 1, Len(s) - 1)) ELSE s

Trim(s) == TrimEnd(TrimStart(s))

\* Number.prototype.toString for a non-negative integer
RECURSIVE NatToString(_)
NatToString(n) ==
    IF n < 10 THEN <<Digits[n + 1]>>
    ELSE NatToString(n \div 10) \o <<Digits[(n % 10) + 1]>>

NumberToString(n) == IF n < 0 THEN <<"-">> \o NatToString(-n) ELSE NatToString(n)

\* The value of the longest prefix of digits of s, given the value acc of the
\* digits already read.
RECURSIVE DigitPrefixValue(_, _)
DigitPrefixValue(s, acc) ==
    IF s # <<>> /\ IsDigit(Head(s))
    THEN DigitPrefixValue(Tail(s), acc * 10 + DigitValue(Head(s)))
    ELSE acc

\* parseInt(s, 10): leading white space is skipped, one sign is accepted, the
\* longest prefix of digits is read and the rest ignored; NaN (None) when no
\* digit is read.
ParseInt(s) ==
    LET t == TrimStart(s)
        signed == t # <<>> /\ Head(t) \in {"-", "+"}
        body == IF signed THEN Tail(t) ELSE t
        magnitude == DigitPrefixValue(body, 0)
    IN  IF body = <<>> \/ ~IsDigit(Head(body)) THEN None
        ELSE IF signed /\ Head(t) = "-" THEN Some(-magnitude)
        ELSE Some(magnitude)

Lower == <<"a", "b", "c", "d", "e", "f", "g", "h", "i", "j", "k", "l", "m",
           "n", "o", "p", "q", "r", "s", "t", "u", "v", "w", "x", "y", "z">>

Upper == <<"A", "B", "C", "D", "E", "F", "G", "H", "I", "J", "K", "L", "M",
           "N", "O", "P", "Q", "R", "S", "T", "U", "V", "W", "X", "Y", "Z">>

IsUpper(ch) == \E i \in 1..26 : Upper[i] = ch

LowerChar(ch) == IF IsUpper(ch) THEN Lower[CHOOSE i \in 1..26 : Upper[i] = ch] ELSE ch

\* String.prototype.toLowerCase
ToLowerCase(s) == [i \in 1..Len(s) |-> LowerChar(s[i])]

\* String.prototype.includes
Includes(s, t) ==
    \E i \in 1..(Len(s) - Len(t) + 1) : SubSeq(s, i, i + Len(t) - 1) = t

\* String.prototype.localeCompare under the default collation: strings are
\* ordered by their characters with case ignored (white space, then
\* punctuation, then digits, then letters), a proper prefix first; strings
\* that differ in case only are ordered lower case first.
CollationOrder == <<" ", "-", ":", ".", "/">> \o Digits \o Lower

PrimaryRank(ch) ==
    LET l == LowerChar(ch)
    IN  IF \E i \in 1..Len(CollationOrder) : CollationOrder[i] = l
        THEN CHOOSE i \in 1..Len(CollationOrder) : CollationOrder[i] = l
        ELSE Len(CollationOrder) + 1

CaseRank(ch) == IF IsUpper(ch) THEN 1 ELSE 0

\* -1, 0 or 1 as the sequence of ranks a is before, equal to or after b.
RECURSIVE CompareRanks(_, _)
CompareRanks(a, b) ==
    IF a = <<>> /\ b = <<>> THEN 0
    ELSE IF a = <<>> THEN -1
    ELSE IF b = <<>> THEN 1
    ELSE IF Head(a) < Head(b) THEN -1
    ELSE IF Head(a) > Head(b) THEN 1
    ELSE CompareRanks(Tail(a), Tail(b))

LocaleCompare(a, b) ==
    LET primary == CompareRanks([i \in 1..Len(a) |-> PrimaryRank(a[i])],
                                [i \in 1..Len(b) |-> PrimaryRank(b[i])])
    IN  IF primary # 0 THEN primary
        ELSE CompareRanks([i \in 1..Len(a) |-> CaseRank(a[i])],
                          [i \in 1..Len(b) |-> CaseRank(b[i])])

(***************************************************************************)
(* Container records, as the listing endpoint returns them.                *)
(***************************************************************************)
Binding(private, public, type) ==
    [PrivatePort |-> private, PublicPort |-> public, Type |-> type]

Web ==
    [Id |-> "c1", Names |-> << <<"/", "w", "e", "b">> >>, Image |-> "nginx",
     State |-> "running", Created |-> 100,
     Ports |-> <<Binding(80, Some(8080), "tcp"), Binding(80, Some(8080), "tcp")>>]

Api ==
    [Id |-> "c2", Names |-> << <<"/", "A", "p", "i">> >>, Image |-> "node",
     State |-> "running", Created |-> 200,
     Ports |-> <<Binding(443, Some(8081), "tcp"), Binding(53, None, "udp"),
                 Binding(443, Some(8081), "tcp"), Binding(53, None, "tcp")>>]

Db ==
    [Id |-> "c3", Names |-> << <<"/", "d", "b">>, <<"/", "w", "e", "b", "/", "d", "b">> >>,
     Image |-> "postgres", State |-> "exited", Created |-> 100,
     Ports |-> <<Binding(5432, Some(8082), "tcp"), Binding(5433, Some(8082), "tcp")>>]

\* The response bodies the listing endpoint may answer with.
Payloads == {<<>>, <<Web>>, <<Web, Api>>, <<Api, Web>>, <<Db, Web, Api>>}

(***************************************************************************)
(* Arrays.                                                                 *)
(***************************************************************************)
Min(a, b) == IF a < b THEN a ELSE b
Max(a, b) == IF a > b THEN a ELSE b

\* Array.prototype.slice(0, end) for end >= 0
SliceTo(arr, end) == SubSeq(arr, 1, Min(end, Len(arr)))

\* arr[i] with JavaScript's zero-based index: undefined outside the array
At(arr, i) == IF 0 <= i /\ i < Len(arr) THEN Some(arr[i + 1]) ELSE None

(***************************************************************************)
(* The next-available-port effect, lines 84-112.                           *)
(***************************************************************************)
PortLimit == 65535

\* lines 88-89
ValidPort(p) == Max(1, Min(PortLimit, p))
\* line 90
ActualMinPort(minP, maxP) == Min(ValidPort(minP), ValidPort(maxP))
\* line 91
ActualMaxPort(minP, maxP) == Max(ValidPort(minP), ValidPort(maxP))

\* line 96: port.PublicPort && port.PublicPort >= lo && port.PublicPort <= hi
IsUsedInRange(binding, lo, hi) ==
    /\ ~IsNull(binding.PublicPort)
    /\ Val(binding.PublicPort) # 0
    /\ Val(binding.PublicPort) >= lo
    /\ Val(binding.PublicPort) <= hi

\* The collection of lines 94-100 reading PrivatePort for PublicPort.
UsedPorts_private(cs, lo, hi) ==
    UNION {{cs[i].Ports[j].PrivatePort :
                j \in {k \in 1..Len(cs[i].Ports) :
                         /\ cs[i].Ports[k].PrivatePort >= lo
                         /\ cs[i].Ports[k].PrivatePort <= hi}} :
           i \in 1..Len(cs)}

\* lines 94-100
UsedPorts(cs, lo, hi) ==
    UNION {{Val(cs[i].Ports[j].PublicPort) :
                j \in {k \in 1..Len(cs[i].Ports) : IsUsedInRange(cs[i].Ports[k], lo, hi)}} :
           i \in 1..Len(cs)}

\* The loop of line 103 with an exclusive upper bound (port < actualMaxPort).
RECURSIVE ScanPorts_exclusive(_, _, _)
ScanPorts_exclusive(port, hi, usedPorts) ==
    IF port >= hi THEN None
    ELSE IF port \notin usedPorts THEN Some(port)
    ELSE ScanPorts_exclusive(port + 1, hi, usedPorts)

\* lines 103-111: the loop, entered with the loop variable at port
RECURSIVE ScanPorts(_, _, _)
ScanPorts(port, hi, usedPorts) ==
    IF port > hi THEN None
    ELSE IF port \notin usedPorts THEN Some(port)
    ELSE ScanPorts(port + 1, hi, usedPorts)

ComputeNextAvailablePort(cs, minP, maxP) ==
    LET lo == ActualMinPort(minP, maxP)
        hi == ActualMaxPort(minP, maxP)
    IN  ScanPorts(lo, hi, UsedPorts(cs, lo, hi))

(***************************************************************************)
(* The filter/sort effect, lines 114-141.                                  *)
(***************************************************************************)
SortOptions == {"name-asc", "name-desc", "created-asc", "created-desc"}

\* The test of lines 119-121 applied to the first name only.
NameMatches_firstOnly(container, term) ==
    Includes(ToLowerCase(container.Names[1]), ToLowerCase(term))

\* lines 119-121
NameMatches(container, term) ==
    \E i \in 1..Len(container.Names) :
        Includes(ToLowerCase(container.Names[i]), ToLowerCase(term))

\* lines 118-122
FilterContainers(cs, term) ==
    LET Keep(c) == NameMatches(c, term) IN SelectSeq(cs, Keep)

\* The comparator with created-asc and created-desc ordered as their menu
\* labels (lines 358-359) read: oldest first for created-asc.
CompareContainers_asLabelled(a, b, option) ==
    CASE option = "name-asc"     -> LocaleCompare(a.Names[1], b.Names[1])
      [] option = "name-desc"    -> LocaleCompare(b.Names[1], a.Names[1])
      [] option = "created-asc"  -> a.Created - b.Created
      [] option = "created-desc" -> b.Created - a.Created
      [] OTHER                   -> 0

\* lines 125-138: the comparator
CompareContainers(a, b, option) ==
    CASE option = "name-asc"     -> LocaleCompare(a.Names[1], b.Names[1])
      [] option = "name-desc"    -> LocaleCompare(b.Names[1], a.Names[1])
      [] option = "created-asc"  -> b.Created - a.Created
      [] option = "created-desc" -> a.Created - b.Created
      [] OTHER                   -> 0

\* Array.prototype.sort is stable: x goes behind the last element that does
\* not compare greater than it.
RECURSIVE InsertSorted(_, _, _)
InsertSorted(sorted, x, option) ==
    IF sorted = <<>> THEN <<x>>
    ELSE IF CompareContainers(sorted[Len(sorted)], x, option) > 0
         THEN InsertSorted(SubSeq(sorted, 1, Len(sorted) - 1), x, option)
                  \o <<sorted[Len(sorted)]>>
         ELSE sorted \o <<x>>

RECURSIVE SortPrefix(_, _, _)
SortPrefix(arr, n, option) ==
    IF n = 0 THEN <<>> ELSE InsertSorted(SortPrefix(arr, n - 1, option), arr[n], option)

SortContainers(arr, option) == SortPrefix(arr, Len(arr), option)

\* The effect's outcome: the array held by the containers state and the array
\* passed to setFilteredContainers.  With a blank search term `filtered` is
\* the containers array itself (line 115) and filtered.sort (line 125) sorts
\* that array in place; otherwise filter (line 118) made a new array.
FilterSortEffect(cs, term, option) ==
    IF Trim(term) # <<>>
    THEN [containers |-> cs,
          filtered   |-> SortContainers(FilterContainers(cs, term), option)]
    ELSE [containers |-> SortContainers(cs, option),
          filtered   |-> SortContainers(cs, option)]

(***************************************************************************)
(* Persisted preferences, lines 36-51, 56-62 and 72-77.                    *)
(***************************************************************************)
DefaultMinPort == 1024
DefaultMaxPort == 49151
DefaultHostname == <<"l", "o", "c", "a", "l", "h", "o", "s", "t">>
DefaultSortOption == "name-asc"

\* lines 43-51
GetStoredPortOrDefault(stored, defaultValue) ==
    IF IsNull(stored) \/ Val(stored) = <<>> THEN defaultValue
    ELSE LET value == ParseInt(Val(stored))
         IN  IF ~IsNull(value) /\ Val(value) >= 1 /\ Val(value) <= PortLimit
             THEN Val(value)
             ELSE defaultValue

\* line 57: localStorage.getItem(HOSTNAME_STORAGE_KEY) || 'localhost'
LoadHostname(stored) ==
    IF IsNull(stored) \/ Val(stored) = <<>> THEN DefaultHostname ELSE Val(stored)

\* line 61: (localStorage.getItem(SORT_OPTION_STORAGE_KEY) as SortOption) || 'name-asc'
LoadSortOption(stored) ==
    IF IsNull(stored) \/ Val(stored) = "" THEN DefaultSortOption ELSE Val(stored)

EmptyStorage ==
    [hostname |-> None, sortOption |-> None, minPort |-> None, maxPort |-> None]

\* What localStorage may hold when the application starts: nothing, the
\* values an earlier session wrote, or content this application never wrote.
InitialStorages ==
    {EmptyStorage,
     [hostname |-> Some(<<"n", "a", "s">>), sortOption |-> Some("created-asc"),
      minPort |-> Some(<<"8", "0", "8", "1">>), maxPort |-> Some(<<"8", "0", "8", "0">>)],
     [hostname |-> Some(<<>>), sortOption |-> Some("newest"),
      minPort |-> Some(<<"a", "b", "c">>), maxPort |-> Some(<<"7", "0", "0", "0", "0">>)]}

\* The same, and port slots whose content starts with digits and goes on
\* with something else.
StoredContents ==
    InitialStorages \cup
    {[hostname |-> Some(<<"n", "a", "s">>), sortOption |-> Some("name-desc"),
      minPort |-> Some(<<"8", "0", "8", "1", "x">>),
      maxPort |-> Some(<<"6", "5", "5", "3", "5", ".", "9">>)]}

(***************************************************************************)
(* Rendering, lines 172-174 and 389-443.                                   *)
(***************************************************************************)
\* lines 172-174
GenerateLink(host, port) ==
    <<"h", "t", "t", "p", ":", "/", "/">> \o host \o <<":">> \o NumberToString(port)

\* The filter of lines 418-423 with the public port as the only key.
DisplayedPorts_publicOnly(ports) ==
    LET FindIndex(port) ==
            CHOOSE i \in 1..Len(ports) :
                /\ ports[i].PublicPort = port.PublicPort
                /\ \A k \in 1..(i - 1) : ports[k].PublicPort # port.PublicPort
        kept == {i \in 1..Len(ports) : FindIndex(ports[i]) = i}
        RECURSIVE Collect(_)
        Collect(i) ==
            IF i > Len(ports) THEN <<>>
            ELSE (IF i \in kept THEN <<ports[i]>> ELSE <<>>) \o Collect(i + 1)
    IN  Collect(1)

\* lines 418-423: a binding is kept when it is the first with its public
\* and private port
DisplayedPorts(ports) ==
    LET FindIndex(port) ==
            CHOOSE i \in 1..Len(ports) :
                /\ ports[i].PublicPort = port.PublicPort
                /\ ports[i].PrivatePort = port.PrivatePort
                /\ \A k \in 1..(i - 1) :
                      ~(/\ ports[k].PublicPort = port.PublicPort
                        /\ ports[k].PrivatePort = port.PrivatePort)
        kept == {i \in 1..Len(ports) : FindIndex(ports[i]) = i}
        RECURSIVE Collect(_)
        Collect(i) ==
            IF i > Len(ports) THEN <<>>
            ELSE (IF i \in kept THEN <<ports[i]>> ELSE <<>>) \o Collect(i + 1)
    IN  Collect(1)

\* lines 383-443: the targets of the port links on screen; the list is
\* rendered only when not loading, a link only for a binding with a public port
LinkTargets ==
    IF loading THEN {}
    ELSE UNION {{GenerateLink(hostname, Val(b.PublicPort)) :
                    b \in {DisplayedPorts(filteredContainers[i].Ports)[j] :
                             j \in {k \in 1..Len(DisplayedPorts(filteredContainers[i].Ports)) :
                                 LET pub == DisplayedPorts(filteredContainers[i].Ports)[k].PublicPort
                                 IN  ~IsNull(pub) /\ Val(pub) # 0}}} :
                i \in 1..Len(filteredContainers)}

\* lines 552-556: the context menu is a modal; while it is open the rest of
\* the page takes no input
MenuOpen == ~IsNull(selectedUrl)

(***************************************************************************)
(* Effects.  After the render that follows a handler, an effect runs when  *)
(* the render is the first one or one of its dependencies changed.         *)
(* Strings and numbers are compared by value; the containers array is      *)
(* compared by identity, and only fetchContainers installs a new array.    *)
(***************************************************************************)
\* The startup effect given the search term as a dependency.
StartupEffectDeps_search == <<searchTerm>>

\* line 81: the dependencies of the startup effect
StartupEffectDeps == <<>>
\* line 112: the dependencies of the next-available-port effect, besides containers
PortEffectDeps == <<minPort, maxPort>>
\* The filter/sort effect without the sort option among its dependencies.
FilterEffectDeps_termOnly == <<searchTerm>>

\* line 141: the dependencies of the filter/sort effect, besides containers
FilterEffectDeps == <<searchTerm, sortOption>>

FetchErrorMessage ==
    "Failed to fetch container information. Make sure the Docker socket is accessible."

\* The render after a handler and the effects it triggers.  The handler left
\* cs, filtered, ld, err and infl in containers, filteredContainers, loading,
\* error and inflight, and has set searchTerm', sortOption', minPort' and
\* maxPort'.  first: this is the mount; newContainers: cs is a new array.
Render(first, newContainers, cs, filtered, ld, err, infl) ==
    LET runStartup == first \/ StartupEffectDeps' # StartupEffectDeps
        runPort    == first \/ newContainers \/ PortEffectDeps' # PortEffectDeps
        runFilter  == first \/ newContainers \/ FilterEffectDeps' # FilterEffectDeps
        sorted     == FilterSortEffect(cs, searchTerm', sortOption')
    IN  /\ mounted' = TRUE
        \* lines 79-81 and 155-159: fetchContainers up to the await
        /\ IF runStartup
           THEN /\ loading' = TRUE
                /\ error' = None
                /\ inflight' = infl + 1
                /\ issued' = issued + 1
                /\ atIssue' = cs
           ELSE /\ loading' = ld
                /\ error' = err
                /\ inflight' = infl
                /\ UNCHANGED <<issued, atIssue>>
        \* lines 84-112
        /\ nextAvailablePort' =
               IF runPort THEN ComputeNextAvailablePort(cs, minPort', maxPort')
               ELSE nextAvailablePort
        \* lines 114-141
        /\ containers' = IF runFilter THEN sorted.containers ELSE cs
        /\ filteredContainers' = IF runFilter THEN sorted.filtered ELSE filtered

\* A handler that leaves the fetched data and the request alone and is not
\* the choice of a context-menu item.
RenderUnchanged ==
    /\ Render(FALSE, FALSE, containers, filteredContainers, loading, error, inflight)
    /\ menuChoice' = "none"

(***************************************************************************)
(* The initial state: the useState initialisers, lines 54-77.              *)
(***************************************************************************)
Init ==
    /\ mounted = FALSE
    /\ storage \in InitialStorages
    /\ containers = <<>>
    /\ filteredContainers = <<>>
    /\ hostname = LoadHostname(storage.hostname)
    /\ searchTerm = <<>>
    /\ sortOption = LoadSortOption(storage.sortOption)
    /\ loading = TRUE
    /\ error = None
    /\ currentUrl = None
    /\ iframeKey = 0
    /\ iframeHistory = <<>>
    /\ historyIndex = -1
    /\ selectedUrl = None
    /\ nextAvailablePort = None
    /\ minPort = GetStoredPortOrDefault(storage.minPort, DefaultMinPort)
    /\ maxPort = GetStoredPortOrDefault(storage.maxPort, DefaultMaxPort)
    /\ inflight = 0
    /\ issued = 0
    /\ settled = "none"
    /\ atIssue = <<>>
    /\ navLog = <<>>
    /\ menuChoice = "none"

\* lines 54-77 with any content of localStorage
InitPrefs ==
    /\ mounted = FALSE
    /\ storage \in StoredContents
    /\ containers = <<>>
    /\ filteredContainers = <<>>
    /\ hostname = LoadHostname(storage.hostname)
    /\ searchTerm = <<>>
    /\ sortOption = LoadSortOption(storage.sortOption)
    /\ loading = TRUE
    /\ error = None
    /\ currentUrl = None
    /\ iframeKey = 0
    /\ iframeHistory = <<>>
    /\ historyIndex = -1
    /\ selectedUrl = None
    /\ nextAvailablePort = None
    /\ minPort = GetStoredPortOrDefault(storage.minPort, DefaultMinPort)
    /\ maxPort = GetStoredPortOrDefault(storage.maxPort, DefaultMaxPort)
    /\ inflight = 0
    /\ issued = 0
    /\ settled = "none"
    /\ atIssue = <<>>
    /\ navLog = <<>>
    /\ menuChoice = "none"

navVars == <<currentUrl, iframeKey, iframeHistory, historyIndex, navLog>>

\* An entry of navLog.
Call(op, url) == [op |-> op, url |-> url]
prefVars == <<storage, hostname, sortOption, minPort, maxPort>>

(***************************************************************************)
(* Mount and the container fetch, lines 79-81 and 155-170.                 *)
(***************************************************************************)
\* The first render and its effects.
Mount ==
    /\ ~mounted
    /\ UNCHANGED <<prefVars, searchTerm, navVars, selectedUrl, settled, menuChoice>>
    /\ Render(TRUE, FALSE, containers, filteredContainers, loading, error, inflight)

\* lines 162-163 and 168: the request is answered with payload
FetchSucceeds(payload) ==
    /\ inflight > 0
    /\ settled' = "fulfilled"
    /\ UNCHANGED <<prefVars, searchTerm, navVars, selectedUrl>>
    /\ menuChoice' = "none"
    /\ Render(FALSE, TRUE, payload, payload, FALSE, error, inflight - 1)

\* The catch block of lines 164-166 without setError.
FetchFails_silent ==
    /\ inflight > 0
    /\ settled' = "rejected"
    /\ UNCHANGED <<prefVars, searchTerm, navVars, selectedUrl>>
    /\ menuChoice' = "none"
    /\ Render(FALSE, FALSE, containers, filteredContainers, FALSE, error, inflight - 1)

\* The failure path without the finally block of lines 167-169.
FetchFails_noFinally ==
    /\ inflight > 0
    /\ settled' = "rejected"
    /\ UNCHANGED <<prefVars, searchTerm, navVars, selectedUrl>>
    /\ menuChoice' = "none"
    /\ Render(FALSE, FALSE, containers, filteredContainers, loading,
              Some(FetchErrorMessage), inflight - 1)

\* lines 164-168: the request fails
FetchFails ==
    /\ inflight > 0
    /\ settled' = "rejected"
    /\ UNCHANGED <<prefVars, searchTerm, navVars, selectedUrl>>
    /\ menuChoice' = "none"
    /\ Render(FALSE, FALSE, containers, filteredContainers, FALSE,
              Some(FetchErrorMessage), inflight - 1)

(***************************************************************************)
(* The embedded navigation controller, lines 176-204.                      *)
(***************************************************************************)
\* Navigate without the slice of line 180: the forward branch is kept.
Navigate_noTruncate(url) ==
    /\ currentUrl' = Some(url)
    /\ iframeKey' = iframeKey + 1
    /\ iframeHistory' = iframeHistory \o <<url>>
    /\ historyIndex' = historyIndex + 1
    /\ navLog' = Append(navLog, Call("navigate", Some(url)))

\* lines 178-181
Navigate(url) ==
    /\ currentUrl' = Some(url)
    /\ iframeKey' = iframeKey + 1
    /\ iframeHistory' = SliceTo(iframeHistory, historyIndex + 1) \o <<url>>
    /\ historyIndex' = historyIndex + 1
    /\ navLog' = Append(navLog, Call("navigate", Some(url)))

\* lines 176-182: a port link is clicked
handleLinkClick(url) ==
    /\ mounted /\ ~MenuOpen
    /\ url \in LinkTargets
    /\ iframeKey < MaxKey
    /\ Navigate(url)
    /\ UNCHANGED <<prefVars, searchTerm, selectedUrl, settled>>
    /\ RenderUnchanged

\* handleBack with the guard of line 185 off by one (historyIndex >= 0).
handleBack_offByOne ==
    /\ mounted /\ ~MenuOpen
    /\ IF historyIndex >= 0
       THEN /\ iframeKey < MaxKey
            /\ historyIndex' = historyIndex - 1
            /\ currentUrl' = At(iframeHistory, historyIndex - 1)
            /\ iframeKey' = iframeKey + 1
            /\ navLog' = Append(navLog, Call("back", None))
            /\ UNCHANGED iframeHistory
       ELSE UNCHANGED navVars
    /\ UNCHANGED <<prefVars, searchTerm, selectedUrl, settled>>
    /\ RenderUnchanged

\* handleBack reading the history at the old index (line 188 with
\* historyIndex for newIndex).
handleBack_staleUrl ==
    /\ mounted /\ ~MenuOpen
    /\ IF historyIndex > 0
       THEN /\ iframeKey < MaxKey
            /\ historyIndex' = historyIndex - 1
            /\ currentUrl' = At(iframeHistory, historyIndex)
            /\ iframeKey' = iframeKey + 1
            /\ navLog' = Append(navLog, Call("back", None))
            /\ UNCHANGED iframeHistory
       ELSE UNCHANGED navVars
    /\ UNCHANGED <<prefVars, searchTerm, selectedUrl, settled>>
    /\ RenderUnchanged

\* lines 184-191.  The handler is modelled as callable in every state; the
\* button that calls it is disabled when historyIndex <= 0 (line 494).
handleBack ==
    /\ mounted /\ ~MenuOpen
    /\ IF historyIndex > 0
       THEN /\ iframeKey < MaxKey
            /\ historyIndex' = historyIndex - 1
            /\ currentUrl' = At(iframeHistory, historyIndex - 1)
            /\ iframeKey' = iframeKey + 1
            /\ navLog' = Append(navLog, Call("back", None))
            /\ UNCHANGED iframeHistory
       ELSE UNCHANGED navVars
    /\ UNCHANGED <<prefVars, searchTerm, selectedUrl, settled>>
    /\ RenderUnchanged

\* handleForward with the guard of line 194 off by one (<= for <).
handleForward_offByOne ==
    /\ mounted /\ ~MenuOpen
    /\ IF historyIndex <= Len(iframeHistory) - 1
       THEN /\ iframeKey < MaxKey
            /\ historyIndex' = historyIndex + 1
            /\ currentUrl' = At(iframeHistory, historyIndex + 1)
            /\ iframeKey' = iframeKey + 1
            /\ navLog' = Append(navLog, Call("forward", None))
            /\ UNCHANGED iframeHistory
       ELSE UNCHANGED navVars
    /\ UNCHANGED <<prefVars, searchTerm, selectedUrl, settled>>
    /\ RenderUnchanged

\* handleForward without the setCurrentUrl of line 197.
handleForward_staleUrl ==
    /\ mounted /\ ~MenuOpen
    /\ IF historyIndex < Len(iframeHistory) - 1
       THEN /\ iframeKey < MaxKey
            /\ historyIndex' = historyIndex + 1
            /\ iframeKey' = iframeKey + 1
            /\ navLog' = Append(navLog, Call("forward", None))
            /\ UNCHANGED <<iframeHistory, currentUrl>>
       ELSE UNCHANGED navVars
    /\ UNCHANGED <<prefVars, searchTerm, selectedUrl, settled>>
    /\ RenderUnchanged

\* lines 193-200.  Callable in every state, as handleBack (line 501).
handleForward ==
    /\ mounted /\ ~MenuOpen
    /\ IF historyIndex < Len(iframeHistory) - 1
       THEN /\ iframeKey < MaxKey
            /\ historyIndex' = historyIndex + 1
            /\ currentUrl' = At(iframeHistory, historyIndex + 1)
            /\ iframeKey' = iframeKey + 1
            /\ navLog' = Append(navLog, Call("forward", None))
            /\ UNCHANGED iframeHistory
       ELSE UNCHANGED navVars
    /\ UNCHANGED <<prefVars, searchTerm, selectedUrl, settled>>
    /\ RenderUnchanged

\* handleRefresh done as a navigation to the active URL: the reload is
\* pushed on the history.
handleRefresh_renavigate ==
    /\ mounted /\ ~MenuOpen
    /\ iframeKey < MaxKey
    /\ iframeKey' = iframeKey + 1
    /\ navLog' = Append(navLog, Call("refresh", None))
    /\ IF IsNull(currentUrl)
       THEN UNCHANGED <<currentUrl, iframeHistory, historyIndex>>
       ELSE /\ iframeHistory' = SliceTo(iframeHistory, historyIndex + 1) \o <<Val(currentUrl)>>
            /\ historyIndex' = historyIndex + 1
            /\ UNCHANGED currentUrl
    /\ UNCHANGED <<prefVars, searchTerm, selectedUrl, settled>>
    /\ RenderUnchanged

\* lines 202-204
handleRefresh ==
    /\ mounted /\ ~MenuOpen
    /\ iframeKey < MaxKey
    /\ iframeKey' = iframeKey + 1
    /\ navLog' = Append(navLog, Call("refresh", None))
    /\ UNCHANGED <<currentUrl, iframeHistory, historyIndex>>
    /\ UNCHANGED <<prefVars, searchTerm, selectedUrl, settled>>
    /\ RenderUnchanged

(***************************************************************************)
(* The context menu, lines 206-228.                                        *)
(***************************************************************************)
\* lines 206-209
handleMenuClick(url) ==
    /\ mounted /\ ~MenuOpen
    /\ url \in LinkTargets
    /\ selectedUrl' = Some(url)
    /\ UNCHANGED <<prefVars, searchTerm, navVars, settled>>
    /\ RenderUnchanged

\* lines 211-214
handleMenuClose ==
    /\ mounted /\ MenuOpen
    /\ selectedUrl' = None
    /\ UNCHANGED <<prefVars, searchTerm, navVars, settled>>
    /\ RenderUnchanged

\* lines 216-221
handleOpenInIframe ==
    /\ mounted /\ MenuOpen
    /\ IF ~IsNull(selectedUrl) /\ Val(selectedUrl) # <<>>
       THEN iframeKey < MaxKey /\ Navigate(Val(selectedUrl))
       ELSE UNCHANGED navVars
    /\ selectedUrl' = None
    /\ menuChoice' = "iframe"
    /\ UNCHANGED <<prefVars, searchTerm, settled>>
    /\ Render(FALSE, FALSE, containers, filteredContainers, loading, error, inflight)

\* "Open in new tab" that loads the URL in the embedded viewer as well.
handleOpenInNewTab_alsoEmbeds ==
    /\ mounted /\ MenuOpen
    /\ iframeKey < MaxKey /\ Navigate(Val(selectedUrl))
    /\ selectedUrl' = None
    /\ menuChoice' = "newtab"
    /\ UNCHANGED <<prefVars, searchTerm, settled>>
    /\ Render(FALSE, FALSE, containers, filteredContainers, loading, error, inflight)

\* lines 223-228: window.open changes nothing of the component
handleOpenInNewTab ==
    /\ mounted /\ MenuOpen
    /\ selectedUrl' = None
    /\ menuChoice' = "newtab"
    /\ UNCHANGED <<prefVars, searchTerm, navVars, settled>>
    /\ Render(FALSE, FALSE, containers, filteredContainers, loading, error, inflight)

(***************************************************************************)
(* The inputs, lines 143-153, 230-244 and 332.                             *)
(***************************************************************************)
HostnameInputs == {<<>>, <<"n", "a", "s">>}

SearchInputs == {<<>>, <<" ">>, <<"W", "E">>, <<"a", "p", "i">>}

PortInputs ==
    {<<"8", "0", "8", "0">>, <<"8", "0", "8", "1">>, <<"1">>, <<"6", "5", "5", "3", "5">>,
     <<"0">>, <<"6", "5", "5", "3", "6">>, <<"a", "b", "c">>, <<>>,
     <<"8", "0", "8", "0", ".", "5">>}

\* lines 143-147
handleHostnameChange(newHostname) ==
    /\ mounted /\ ~MenuOpen
    /\ hostname' = newHostname
    /\ storage' = [storage EXCEPT !.hostname = Some(newHostname)]
    /\ UNCHANGED <<sortOption, minPort, maxPort, searchTerm, navVars, selectedUrl, settled>>
    /\ RenderUnchanged

\* lines 149-153
handleSortChange(newSortOption) ==
    /\ mounted /\ ~MenuOpen
    /\ sortOption' = newSortOption
    /\ storage' = [storage EXCEPT !.sortOption = Some(newSortOption)]
    /\ UNCHANGED <<hostname, minPort, maxPort, searchTerm, navVars, selectedUrl, settled>>
    /\ RenderUnchanged

\* line 332
handleSearchChange(term) ==
    /\ mounted /\ ~MenuOpen
    /\ searchTerm' = term
    /\ UNCHANGED <<prefVars, navVars, selectedUrl, settled>>
    /\ RenderUnchanged

\* lines 231-232 and 239-240
IsValidPortInput(value) == ~IsNull(value) /\ Val(value) >= 1 /\ Val(value) <= PortLimit

\* lines 230-236
handleMinPortChange(input) ==
    /\ mounted /\ ~MenuOpen
    /\ LET value == ParseInt(input)
       IN  IF IsValidPortInput(value)
           THEN /\ minPort' = Val(value)
                /\ storage' = [storage EXCEPT !.minPort = Some(NumberToString(Val(value)))]
           ELSE UNCHANGED <<minPort, storage>>
    /\ UNCHANGED <<hostname, sortOption, maxPort, searchTerm, navVars, selectedUrl, settled>>
    /\ RenderUnchanged

\* lines 238-244
handleMaxPortChange(input) ==
    /\ mounted /\ ~MenuOpen
    /\ LET value == ParseInt(input)
       IN  IF IsValidPortInput(value)
           THEN /\ maxPort' = Val(value)
                /\ storage' = [storage EXCEPT !.maxPort = Some(NumberToString(Val(value)))]
           ELSE UNCHANGED <<maxPort, storage>>
    /\ UNCHANGED <<hostname, sortOption, minPort, searchTerm, navVars, selectedUrl, settled>>
    /\ RenderUnchanged

(***************************************************************************)
(* The specifications.  Spec is the whole component.  Its navigation       *)
(* state and its data state (fetched list, search, sort, port range,       *)
(* preferences) do not read each other, and their product is beyond        *)
(* exhaustive search, so each group of handlers is explored on its own,    *)
(* together with the mount and the fetch: SpecNav takes the input of the   *)
(* port links, the navigation buttons and the context menu, SpecData the   *)
(* input of the text fields and the sort select.                           *)
(***************************************************************************)
StartupNext ==
    \/ Mount
    \/ \E payload \in Payloads : FetchSucceeds(payload)
    \/ FetchFails

NavInput ==
    \/ \E url \in LinkTargets : handleLinkClick(url)
    \/ handleBack
    \/ handleForward
    \/ handleRefresh
    \/ \E url \in LinkTargets : handleMenuClick(url)
    \/ handleMenuClose
    \/ handleOpenInIframe
    \/ handleOpenInNewTab

DataInput ==
    \/ \E h \in HostnameInputs : handleHostnameChange(h)
    \/ \E o \in SortOptions : handleSortChange(o)
    \/ \E t \in SearchInputs : handleSearchChange(t)
    \/ \E i \in PortInputs : handleMinPortChange(i)
    \/ \E i \in PortInputs : handleMaxPortChange(i)

Next == StartupNext \/ NavInput \/ DataInput

Spec == Init /\ [][Next]_vars

NavNext == StartupNext \/ NavInput

SpecNav == Init /\ [][NavNext]_vars

DataNext == StartupNext \/ DataInput

SpecData == Init /\ [][DataNext]_vars

\* The page is loaded again: the component is constructed anew (lines 54-77)
\* from the localStorage the previous page left; the requests of the previous
\* page are gone with it.
Reload ==
    /\ mounted
    /\ UNCHANGED storage
    /\ mounted' = FALSE
    /\ containers' = <<>>
    /\ filteredContainers' = <<>>
    /\ hostname' = LoadHostname(storage.hostname)
    /\ searchTerm' = <<>>
    /\ sortOption' = LoadSortOption(storage.sortOption)
    /\ loading' = TRUE
    /\ error' = None
    /\ currentUrl' = None
    /\ iframeKey' = 0
    /\ iframeHistory' = <<>>
    /\ historyIndex' = -1
    /\ selectedUrl' = None
    /\ nextAvailablePort' = None
    /\ minPort' = GetStoredPortOrDefault(storage.minPort, DefaultMinPort)
    /\ maxPort' = GetStoredPortOrDefault(storage.maxPort, DefaultMaxPort)
    /\ inflight' = 0
    /\ issued' = 0
    /\ settled' = "none"
    /\ atIssue' = <<>>
    /\ navLog' = <<>>
    /\ menuChoice' = "none"

\* The preference fields of lines 247-296 and 348-361.
PrefInput ==
    \/ \E h \in HostnameInputs : handleHostnameChange(h)
    \/ \E o \in SortOptions : handleSortChange(o)
    \/ \E i \in PortInputs : handleMinPortChange(i)
    \/ \E i \in PortInputs : handleMaxPortChange(i)

\* Sessions of preference edits and reloads, with the listing endpoint failing
\* or not answering.
PrefsNext ==
    \/ Mount
    \/ FetchFails
    \/ PrefInput
    \/ Reload

SpecPrefs == InitPrefs /\ [][PrefsNext]_vars

(***************************************************************************)
(* Properties of the navigation controller, checked under SpecNav.         *)
(***************************************************************************)
\* The variables a navigation call must leave alone.
dataVars == <<mounted, storage, containers, filteredContainers, hostname, searchTerm,
              sortOption, loading, error, selectedUrl, nextAvailablePort, minPort,
              maxPort, inflight, issued, settled, atIssue>>

\* C1: in every reachable state the history index is at least -1 and at most
\* the last position of the history.
C1_IndexInRange ==
    /\ -1 <= historyIndex
    /\ historyIndex <= Len(iframeHistory) - 1

\* C1 witness: the index is inside the history, below its last position,
\* after navigations, a step back and a step forward.
C1_Witness ==
    /\ Len(iframeHistory) = 3
    /\ historyIndex = 1
    /\ \E i \in 1..Len(navLog) : navLog[i].op = "back"

\* What Navigate(url) must make of the history h and the index i.
NavigateEffect(url) ==
    /\ iframeHistory' = SubSeq(iframeHistory, 1, historyIndex + 1) \o <<url>>
    /\ historyIndex' = historyIndex + 1
    /\ historyIndex' = Len(iframeHistory') - 1
    /\ currentUrl' = Some(url)

IsScenarioLog ==
    /\ Len(navLog) = 4
    /\ navLog[1].op = "navigate"
    /\ navLog[2].op = "navigate"
    /\ navLog[3].op = "back"
    /\ navLog[4].op = "navigate"

\* C2: every navigation (a port link clicked, or "open in iframe" chosen)
\* keeps the history up to the old index, appends the URL, moves the index to
\* the new last position and makes the URL the active one; and after
\* Navigate(a), Navigate(b), Back(), Navigate(c) from the initial state the
\* history is [a, c] and the index 1.
C2_NavigateTruncatesAndAppends ==
    /\ [][/\ \A url \in LinkTargets : handleLinkClick(url) => NavigateEffect(url)
          /\ (handleOpenInIframe /\ ~IsNull(selectedUrl))
                => NavigateEffect(Val(selectedUrl))]_vars
    /\ [](IsScenarioLog =>
            /\ iframeHistory = <<Val(navLog[1].url), Val(navLog[4].url)>>
            /\ historyIndex = 1)

\* C2 witness: the state after Navigate(a), Navigate(b), Back(), Navigate(c)
\* with three different URLs; b is gone from the history.
C2_Witness ==
    /\ IsScenarioLog
    /\ Val(navLog[1].url) # Val(navLog[2].url)
    /\ Val(navLog[4].url) # Val(navLog[1].url)
    /\ Val(navLog[4].url) # Val(navLog[2].url)
    /\ iframeHistory = <<Val(navLog[1].url), Val(navLog[4].url)>>
    /\ currentUrl = navLog[4].url

\* C3: Back() at an index <= 0 and Forward() at an index >= the last position
\* change nothing: not the history, the index or the active URL, and not the
\* error.
C3_BackForwardNoOp ==
    [][/\ (handleBack /\ historyIndex <= 0)
            => UNCHANGED <<iframeHistory, historyIndex, currentUrl, iframeKey, error>>
       /\ (handleForward /\ historyIndex >= Len(iframeHistory) - 1)
            => UNCHANGED <<iframeHistory, historyIndex, currentUrl, iframeKey, error>>]_vars

\* C3 witness: a single page was visited, so the index is 0 and is the last
\* position: Back and Forward are both at their limit.
C3_Witness ==
    /\ Len(iframeHistory) = 1
    /\ historyIndex = 0
    /\ ~IsNull(currentUrl)
    /\ IsNull(error)

\* C4: Back() at an index > 0 lowers the index by one, Forward() at an index
\* below the last position raises it by one; the active URL becomes the
\* history's entry at the new index and the history is unchanged.
C4_BackForwardMove ==
    [][/\ (handleBack /\ historyIndex > 0)
            => /\ historyIndex' = historyIndex - 1
               /\ currentUrl' = Some(iframeHistory[historyIndex' + 1])
               /\ iframeHistory' = iframeHistory
       /\ (handleForward /\ historyIndex < Len(iframeHistory) - 1)
            => /\ historyIndex' = historyIndex + 1
               /\ currentUrl' = Some(iframeHistory[historyIndex' + 1])
               /\ iframeHistory' = iframeHistory]_vars

\* C4 witness: two different pages visited, then Back, then Forward.
C4_Witness ==
    /\ Len(navLog) = 4
    /\ navLog[3].op = "back"
    /\ navLog[4].op = "forward"
    /\ Len(iframeHistory) = 2
    /\ iframeHistory[1] # iframeHistory[2]
    /\ currentUrl = Some(iframeHistory[2])

\* C5: Refresh() changes the remount key, by one, and nothing else: the
\* history, the index, the active URL and all other state are unchanged.
C5_RefreshOnlyRemounts ==
    [][handleRefresh =>
          /\ iframeKey' = iframeKey + 1
          /\ UNCHANGED <<iframeHistory, historyIndex, currentUrl>>
          /\ UNCHANGED dataVars]_vars

\* C5 witness: a page is shown that is not the last of the history, and the
\* last call was a refresh.
C5_Witness ==
    /\ Len(navLog) = 4
    /\ navLog[4].op = "refresh"
    /\ historyIndex = 0
    /\ Len(iframeHistory) = 2
    /\ ~IsNull(currentUrl)

(***************************************************************************)
(* Properties of the port calculator and the fetch, checked under          *)
(* SpecData.                                                               *)
(***************************************************************************)
\* The public ports of all bindings of all containers.
PublishedPorts ==
    UNION {{Val(containers[i].Ports[j].PublicPort) :
                j \in {k \in 1..Len(containers[i].Ports) :
                         ~IsNull(containers[i].Ports[k].PublicPort)}} :
           i \in 1..Len(containers)}

RangeLow == Min(minPort, maxPort)
RangeHigh == Max(minPort, maxPort)

\* C6: the next-available port, when there is one, lies between the smaller
\* and the larger of the two configured ports and is not the public port of
\* any binding of any container.
C6_NextPortInRangeAndFree ==
    ~IsNull(nextAvailablePort) =>
        /\ Val(nextAvailablePort) >= RangeLow
        /\ Val(nextAvailablePort) <= RangeHigh
        /\ Val(nextAvailablePort) \notin PublishedPorts

\* C6 witness: the range was entered reversed (min above max), its lower
\* port is published and the upper one is the answer.
C6_Witness ==
    /\ minPort > maxPort
    /\ maxPort \in PublishedPorts
    /\ nextAvailablePort = Some(minPort)

\* C7: once computed, the next-available port is the lowest port of the
\* range that no container publishes, and it is absent exactly when every
\* port of the range is published.
C7_NextPortIsLowestFree ==
    mounted =>
        IF IsNull(nextAvailablePort)
        THEN \A p \in RangeLow..RangeHigh : p \in PublishedPorts
        ELSE /\ Val(nextAvailablePort) \in RangeLow..RangeHigh
             /\ Val(nextAvailablePort) \notin PublishedPorts
             /\ \A p \in RangeLow..(Val(nextAvailablePort) - 1) : p \in PublishedPorts

\* C7 witness: a range of a single port, which a container publishes: no
\* port is available.
C7_Witness ==
    /\ mounted
    /\ minPort = maxPort
    /\ minPort \in PublishedPorts
    /\ IsNull(nextAvailablePort)

\* C8: when the request fails, the container list is what it was when the
\* request was issued and the error message is set.
C8_FailureKeepsList ==
    [][FetchFails => (containers' = atIssue /\ ~IsNull(error'))]_vars

\* C8 witness: the request has failed: the list is empty, the message is
\* shown and the loading indicator is off.
C8_Witness ==
    /\ settled = "rejected"
    /\ containers = <<>>
    /\ error = Some(FetchErrorMessage)
    /\ ~loading

\* C9: when the request succeeds, the container list is the response payload
\* and the error is null.
C9_SuccessInstallsPayload ==
    [][\A payload \in Payloads :
          FetchSucceeds(payload) => (containers' = payload /\ IsNull(error'))]_vars

\* C10: one request is issued, by the mount, and no other: before the mount
\* none was issued, after it exactly one, and at most one is in flight.
C10_SingleFetch ==
    /\ issued = (IF mounted THEN 1 ELSE 0)
    /\ inflight <= 1

\* C10 witness: the request was answered and the user has since changed the
\* search term, the sort option and the port range; still one request.
C10_Witness ==
    /\ issued = 1
    /\ inflight = 0
    /\ settled = "fulfilled"
    /\ searchTerm # <<>>
    /\ ~IsNull(storage.sortOption)
    /\ minPort = maxPort

(***************************************************************************)
(* Properties of the filter/sort effect, checked under SpecData.           *)
(***************************************************************************)
\* C11: the raw container list changes only in the step in which a request
\* succeeds; no edit of the search term or of the sort option changes its
\* elements or their order.
C11_RawListChangesOnlyOnFetch ==
    [][containers' # containers => \E payload \in Payloads : FetchSucceeds(payload)]_vars

\* name contains term when the case of letters is ignored.
ContainsIgnoringCase(name, term) ==
    \E i \in 1..(Len(name) - Len(term) + 1) :
        \A k \in 1..Len(term) : LowerChar(name[i + k - 1]) = LowerChar(term[k])

\* The positions of the raw list whose container has a name containing term.
MatchingPositions(term) ==
    {i \in 1..Len(containers) :
        \E n \in 1..Len(containers[i].Names) :
            ContainsIgnoringCase(containers[i].Names[n], term)}

\* The display list holds exactly the containers at the positions of the raw
\* list in keep, each once.
DisplaysExactly(keep) ==
    /\ {filteredContainers[j] : j \in 1..Len(filteredContainers)} =
           {containers[i] : i \in keep}
    /\ Len(filteredContainers) = Cardinality(keep)

\* C12 as claimed: for every search term the display list holds exactly the
\* containers with a name that contains the term, case ignored, each once
\* (every name contains the empty term).
C12_FilterBySubstring == DisplaysExactly(MatchingPositions(searchTerm))

\* C12 amended: a term that is empty or white space only shows the whole
\* list; every other term shows exactly the containers with a name that
\* contains the term as typed, case ignored, each once.
C12_FilterUnlessBlank ==
    DisplaysExactly(IF Trim(searchTerm) = <<>>
                    THEN 1..Len(containers)
                    ELSE MatchingPositions(searchTerm))

\* C12 witness: the term "WE" keeps /web and, by its second name /web/db,
\* the container /db, and drops /Api.
C12_Witness ==
    /\ searchTerm = <<"W", "E">>
    /\ Len(containers) = 3
    /\ Len(filteredContainers) = 2
    /\ \E j \in 1..2 : filteredContainers[j].Id = "c3"

PortPair(b) == <<b.PublicPort, b.PrivatePort>>

\* The position in ports of the first binding with the key of b.
FirstOccurrence(ports, b) ==
    CHOOSE i \in 1..Len(ports) :
        /\ PortPair(ports[i]) = PortPair(b)
        /\ \A k \in 1..(i - 1) : PortPair(ports[k]) # PortPair(b)

\* shown is ports with duplicates removed: every key of ports once, each
\* shown binding the first of its key, in the order of ports.
IsDeduplicated(shown, ports) ==
    /\ \A i \in 1..Len(ports) :
          Cardinality({j \in 1..Len(shown) : PortPair(shown[j]) = PortPair(ports[i])}) = 1
    /\ \A j \in 1..Len(shown) :
          /\ \E i \in 1..Len(ports) : PortPair(ports[i]) = PortPair(shown[j])
          /\ shown[j] = ports[FirstOccurrence(ports, shown[j])]
    /\ \A j, k \in 1..Len(shown) :
          j < k => FirstOccurrence(ports, shown[j]) < FirstOccurrence(ports, shown[k])

\* C19: for every container on screen the bindings displayed are its bindings
\* with duplicates by (public, private) port removed, the first occurrence of
\* each pair kept, in input order.
C19_PortsDeduplicated ==
    ~loading =>
        \A i \in 1..Len(filteredContainers) :
            IsDeduplicated(DisplayedPorts(filteredContainers[i].Ports),
                           filteredContainers[i].Ports)

\* C19 witness: a container on screen with four bindings of which two are
\* displayed, and one with two bindings of the same public port both displayed.
C19_Witness ==
    /\ ~loading
    /\ \E i \in 1..Len(filteredContainers) :
          /\ Len(filteredContainers[i].Ports) = 4
          /\ Len(DisplayedPorts(filteredContainers[i].Ports)) = 2
    /\ \E i \in 1..Len(filteredContainers) :
          /\ filteredContainers[i].Id = "c3"
          /\ Len(DisplayedPorts(filteredContainers[i].Ports)) = 2

\* C20: in every state, whatever the order of request completion, search
\* edits and sort changes before it, the display list is the raw list of that
\* state filtered by the search term of that state (a blank term keeps
\* everything) and then sorted by the sort option of that state.
C20_DisplayIsFilterThenSort ==
    filteredContainers =
        SortContainers(IF Trim(searchTerm) = <<>>
                       THEN containers
                       ELSE FilterContainers(containers, searchTerm),
                       sortOption)

\* C20 witness: the request has completed with three containers, the term
\* "WE" and the order name-desc are in force, and the list shown is /web
\* followed by /db.
C20_Witness ==
    /\ ~loading
    /\ Len(containers) = 3
    /\ searchTerm = <<"W", "E">>
    /\ sortOption = "name-desc"
    /\ Len(filteredContainers) = 2
    /\ filteredContainers[1].Id = "c1"
    /\ filteredContainers[2].Id = "c3"

(***************************************************************************)
(* Properties of the stored preferences.                                   *)
(***************************************************************************)
\* C15: whatever string is stored under the sort-option key, the sort option
\* in force is one of name-asc, name-desc, created-asc, created-desc.
C15_SortOptionIsKnown == sortOption \in SortOptions

\* s is the decimal notation of a natural number: digits and nothing else.
IsIntegerText(s) == s # <<>> /\ \A i \in 1..Len(s) : IsDigit(s[i])

\* s denotes an integer from 1 to 65535.
IsPortText(s) ==
    IsIntegerText(s) /\ DigitPrefixValue(s, 0) >= 1 /\ DigitPrefixValue(s, 0) =< PortLimit

\* What a port slot loads as when only an integer from 1 to 65535 counts.
LoadsAs(stored, defaultValue) ==
    IF ~IsNull(stored) /\ IsPortText(Val(stored))
    THEN DigitPrefixValue(Val(stored), 0)
    ELSE defaultValue

\* C14: when the page has just been constructed, each port slot holds the
\* stored integer if the stored content is an integer from 1 to 65535 and
\* its default (1024, 49151) for every other content, and no error is set.
C14_PortSlotsLoadOrDefault ==
    ~mounted =>
        /\ minPort = LoadsAs(storage.minPort, DefaultMinPort)
        /\ maxPort = LoadsAs(storage.maxPort, DefaultMaxPort)
        /\ IsNull(error)

\* C16: an edit of the min-port or max-port field whose input is not an
\* integer from 1 to 65535 changes neither the value in memory nor the stored
\* value of the slot, and sets no error.
C16_InvalidPortEditIgnored ==
    [][\A i \in PortInputs :
          ~IsPortText(i) =>
              /\ handleMinPortChange(i) =>
                    /\ minPort' = minPort
                    /\ storage'.minPort = storage.minPort
                    /\ error' = error
              /\ handleMaxPortChange(i) =>
                    /\ maxPort' = maxPort
                    /\ storage'.maxPort = storage.maxPort
                    /\ error' = error]_vars

\* C17: a reload leaves every preference at the value it had in memory just
\* before the reload.
C17_ReloadKeepsPreferences ==
    [][Reload =>
          /\ hostname' = hostname
          /\ sortOption' = sortOption
          /\ minPort' = minPort
          /\ maxPort' = maxPort]_vars

(***************************************************************************)
(* Properties of the context menu, checked under SpecNav.                  *)
(***************************************************************************)
\* C18: "open in new tab" leaves the history, the index and the active URL
\* as they are; "open in iframe" does to them what Navigate(selected URL)
\* does; either choice clears the menu selection.
C18_MenuChoices ==
    [][/\ handleOpenInNewTab =>
             /\ UNCHANGED <<iframeHistory, historyIndex, currentUrl>>
             /\ selectedUrl' = None
       /\ handleOpenInIframe =>
             /\ NavigateEffect(Val(selectedUrl))
             /\ selectedUrl' = None]_vars

\* C18 witness: "open in iframe" has just been chosen after a step back, so
\* that the forward entry was replaced by the selected URL.
C18_Witness ==
    /\ menuChoice = "iframe"
    /\ IsNull(selectedUrl)
    /\ Len(navLog) = 4
    /\ navLog[3].op = "back"
    /\ Len(iframeHistory) = 2
    /\ historyIndex = 1
    /\ currentUrl = navLog[4].url
    /\ navLog[4].url # navLog[2].url

(***************************************************************************)
(* The active URL and the history, checked under SpecNav.                  *)
(***************************************************************************)
\* C22: in every reachable state the active URL is null exactly when the
\* history index is -1, and otherwise it is the history entry at the index.
C22_ActiveUrlIsHistoryEntry ==
    /\ IsNull(currentUrl) <=> historyIndex = -1
    /\ historyIndex # -1 =>
          /\ historyIndex >= 0
          /\ historyIndex < Len(iframeHistory)
          /\ currentUrl = Some(iframeHistory[historyIndex + 1])

\* C22 witness: after two navigations, a step back and a step forward again,
\* the index is at the second of two different entries and the active URL
\* is that entry.
C22_Witness ==
    /\ Len(navLog) = 4
    /\ navLog[3].op = "back"
    /\ navLog[4].op = "forward"
    /\ historyIndex = 1
    /\ Len(iframeHistory) = 2
    /\ iframeHistory[1] # iframeHistory[2]
    /\ currentUrl = Some(iframeHistory[historyIndex + 1])
    /\ IsNull(selectedUrl)
    /\ menuChoice = "none"

(***************************************************************************)
(* The loading indicator, checked under SpecData.                          *)
(***************************************************************************)
\* C21: the loading indicator is on in every state in which the request has
\* not completed, however long that lasts, and off in every state after it
\* completed, with success or with failure; it changes only once, from on to
\* off, in the step in which the request completes.
C21_LoadingUntilFetchCompletes ==
    /\ [](loading <=> settled = "none")
    /\ [][loading' # loading =>
             /\ loading
             /\ \/ \E payload \in Payloads : FetchSucceeds(payload)
                \/ FetchFails]_vars

\* C21 witness: the one request has completed with two containers and the
\* indicator is off, the list being on screen under an edited search term.
C21_Witness ==
    /\ ~loading
    /\ settled = "fulfilled"
    /\ issued = 1
    /\ inflight = 0
    /\ Len(containers) = 2
    /\ searchTerm = <<"a", "p", "i">>
    /\ IsNull(error)

====
